---- MODULE Spec2Model ----
(***************************************************************************)
(* Model of the jobly model layer: the partial-update builder              *)
(* (helpers/sql.js), the Company and Job repositories and the statements   *)
(* they hand to the relational store through db.query.                     *)
(*                                                                         *)
(* Text values that the store matches with ILIKE or sorts (company name,   *)
(* job title) are sequences of one-character strings; identifiers          *)
(* (handles, column names, keywords) are strings.  A template literal is   *)
(* the sequence of its parts.                                              *)
(***************************************************************************)
EXTENDS Integers, Sequences, FiniteSets, TLC

VARIABLES companies,     \* rows of table companies
          jobs,          \* rows of table jobs
          lenientLexer,  \* whether the store's lexer splits "$1ORDER" / "0ORDER"
          last,          \* the last call: operation, arguments, queries, outcome
          inflight       \* the create calls in flight, each before or after its await

vars == <<companies, jobs, lenientLexer, last, inflight>>

(***************************************************************************)
(* Bounds of the model.                                                    *)
(***************************************************************************)
MaxEmployees == 2      \* numEmployees, minEmployees, maxEmployees range over 0..MaxEmployees
MaxSalary == 2         \* salary and minSalary range over 0..MaxSalary
MaxDataLen == 2        \* longest field mapping handed to sqlForPartialUpdate
\* number of create calls in flight at once
MaxCalls == 2

(***************************************************************************)
(* Errors (expressError.js is required by every source file; the classes   *)
(* carry a message and an HTTP status).                                    *)
(***************************************************************************)
BadRequestError(msg) == [name |-> "BadRequestError", status |-> 400, message |-> msg]
NotFoundError(msg) == [name |-> "NotFoundError", status |-> 404, message |-> msg]
ExpressError(msg, st) == [name |-> "ExpressError", status |-> st, message |-> msg]
ReferenceError(msg) == [name |-> "ReferenceError", status |-> 500, message |-> msg]
StoreError(msg) == [name |-> "StoreError", status |-> 500, message |-> msg]

\* How a call ends: it returns an object, returns an array, or throws.
Return(v) == [ok |-> TRUE, type |-> "object", value |-> v]
ReturnArray(v) == [ok |-> TRUE, type |-> "array", value |-> v]
ReturnUndefined == [ok |-> TRUE, type |-> "undefined", value |-> <<>>]
Throw(e) == [ok |-> FALSE, error |-> e]

(***************************************************************************)
(* JavaScript helpers.                                                     *)
(***************************************************************************)
\* Object.keys(o).includes(k) for a mapping o
Has(o, k) == k \in DOMAIN o

\* truthiness of a number: if (minEmployees), if (minSalary)
TruthyNum(o, k) == Has(o, k) /\ o[k] # 0

\* truthiness of a string: if (name), if (title)
TruthyStr(o, k) == Has(o, k) /\ o[k] # <<>>

RECURSIVE SetToSeq(_)
SetToSeq(S) ==
    IF S = {} THEN <<>>
    ELSE LET x == CHOOSE y \in S : TRUE IN <<x>> \o SetToSeq(S \ {x})

Reverse(s) == [i \in 1..Len(s) |-> s[Len(s) + 1 - i]]

Range(s) == {s[i] : i \in DOMAIN s}

(***************************************************************************)
(* The store.  Its tables and columns are the ones the statements of the   *)
(* repositories read: companies(handle, name, description, num_employees,  *)
(* logo_url) and jobs(id, title, salary, equity, company_handle).          *)
(***************************************************************************)
CompanyColumns == {"handle", "name", "description", "num_employees", "logo_url"}
JobColumns == {"id", "title", "salary", "equity", "company_handle"}

Tables == {"companies", "jobs"}
Columns(table) == IF table = "companies" THEN CompanyColumns ELSE JobColumns
Rows(db, table) == IF table = "companies" THEN db.companies ELSE db.jobs
WithRows(db, table, rows) ==
    IF table = "companies" THEN [db EXCEPT !.companies = rows]
    ELSE [db EXCEPT !.jobs = rows]

\* rows of a result in the order the store happens to deliver them
Deliver(S, rev) == IF rev THEN Reverse(SetToSeq(S)) ELSE SetToSeq(S)

\* one output row of a selection list  col AS "as", ...
Project(row, sel) ==
    [a \in {sel[i].as : i \in DOMAIN sel} |->
        row[sel[CHOOSE i \in DOMAIN sel : sel[i].as = a].col]]

SelOk(table, sel) == \A i \in DOMAIN sel : sel[i].col \in Columns(table)

QueryOk(rows, db) == [ok |-> TRUE, rows |-> rows, db |-> db]
QueryFail(msg, db) == [ok |-> FALSE, error |-> StoreError(msg), rows |-> <<>>, db |-> db]

\* SELECT sel FROM table WHERE where.col = $where.placeholder
ExecSelect(q, db, rev) ==
    IF q.table \notin Tables THEN QueryFail("relation does not exist", db)
    ELSE IF ~SelOk(q.table, q.sel) \/ q.where.col \notin Columns(q.table)
    THEN QueryFail("column does not exist", db)
    ELSE LET hit == {r \in Rows(db, q.table) :
                        r[q.where.col] = q.values[q.where.placeholder]}
         IN QueryOk(Deliver({Project(r, q.sel) : r \in hit}, rev), db)

NextId(rows) ==
    IF rows = {} THEN 1
    ELSE 1 + (CHOOSE n \in {r.id : r \in rows} : \A r \in rows : r.id <= n)

\* INSERT INTO table (cols) VALUES ($1, ..., $n) RETURNING returning
ExecInsert(q, db) ==
    IF q.table \notin Tables THEN QueryFail("relation does not exist", db)
    ELSE IF Range(q.cols) \cap Columns(q.table) # Range(q.cols)
            \/ ~SelOk(q.table, q.returning)
    THEN QueryFail("column does not exist", db)
    ELSE LET given == [c \in Range(q.cols) |->
                          q.values[CHOOSE i \in DOMAIN q.cols : q.cols[i] = c]]
             row == IF q.table = "companies" THEN given
                    ELSE [c \in JobColumns |->
                            IF c = "id" THEN NextId(db.jobs) ELSE given[c]]
         IN IF q.table = "companies"
               /\ \E r \in db.companies : r.handle = row.handle
            THEN QueryFail("duplicate key value violates unique constraint", db)
            ELSE IF q.table = "jobs"
               /\ ~\E r \in db.companies : r.handle = row.company_handle
            THEN QueryFail("violates foreign key constraint", db)
            ELSE QueryOk(<<Project(row, q.returning)>>,
                         WithRows(db, q.table, Rows(db, q.table) \cup {row}))

\* UPDATE table SET "column"=$i, ... WHERE where.col = $n RETURNING returning
ExecUpdate(q, db, rev) ==
    IF q.table \notin Tables THEN QueryFail("relation does not exist", db)
    ELSE IF (\E i \in DOMAIN q.set : q.set[i].column \notin Columns(q.table))
            \/ q.where.col \notin Columns(q.table)
            \/ ~SelOk(q.table, q.returning)
    THEN QueryFail("column does not exist", db)
    ELSE LET hit == {r \in Rows(db, q.table) :
                        r[q.where.col] = q.values[q.where.placeholder]}
             new(r) == [c \in Columns(q.table) |->
                          IF \E i \in DOMAIN q.set : q.set[i].column = c
                          THEN q.values[q.set[CHOOSE i \in DOMAIN q.set :
                                                 q.set[i].column = c].placeholder]
                          ELSE r[c]]
         IN QueryOk(Deliver({Project(new(r), q.returning) : r \in hit}, rev),
                    WithRows(db, q.table,
                             (Rows(db, q.table) \ hit) \cup {new(r) : r \in hit}))

\* SELECT sel FROM left AS c JOIN right AS j ON c.on.l = j.on.r
\* WHERE c.where.col = $where.placeholder     (an inner join)
ExecSelectJoin(q, db, rev) ==
    IF q.left \notin Tables \/ q.right \notin Tables
    THEN QueryFail("relation does not exist", db)
    ELSE IF (\E i \in DOMAIN q.sel :
                q.sel[i].col \notin
                    Columns(IF q.sel[i].side = "c" THEN q.left ELSE q.right))
            \/ q.on.l \notin Columns(q.left) \/ q.on.r \notin Columns(q.right)
            \/ q.where.col \notin Columns(q.left)
    THEN QueryFail("column does not exist", db)
    ELSE LET pairs == {p \in Rows(db, q.left) \X Rows(db, q.right) :
                          /\ p[1][q.on.l] = p[2][q.on.r]
                          /\ p[1][q.where.col] = q.values[q.where.placeholder]}
             out(p) == [a \in {q.sel[i].as : i \in DOMAIN q.sel} |->
                          LET s == q.sel[CHOOSE i \in DOMAIN q.sel : q.sel[i].as = a]
                          IN IF s.side = "c" THEN p[1][s.col] ELSE p[2][s.col]]
         IN QueryOk(Deliver({out(p) : p \in pairs}, rev), db)

(***************************************************************************)
(* Statement text.  A statement built by string concatenation is the       *)
(* sequence of its lexical pieces; sp says whether white space separates   *)
(* the piece from the text before it, so appending a literal that does not *)
(* start with a blank leaves its first piece glued to what precedes it.    *)
(***************************************************************************)
Word(s, sp) == [kind |-> "word", tok |-> s, n |-> 0, sp |-> sp]
Oper(s, sp) == [kind |-> "op", tok |-> s, n |-> 0, sp |-> sp]
Param_AlwaysOne(i, sp) == [kind |-> "param", tok |-> "$1", n |-> 1, sp |-> sp]
Param(i, sp) == [kind |-> "param", tok |-> "$" \o ToString(i), n |-> i, sp |-> sp]
Numeral(v, sp) == [kind |-> "num", tok |-> ToString(v), n |-> v, sp |-> sp]

\* the white-space delimited tokens of a statement text
RECURSIVE WsTokens(_)
WsTokens(text) ==
    IF text = <<>> THEN <<>>
    ELSE LET init == WsTokens(SubSeq(text, 1, Len(text) - 1))
             p == text[Len(text)]
         IN IF p.sp \/ init = <<>> THEN Append(init, p.tok)
            ELSE [init EXCEPT ![Len(init)] = @ \o p.tok]

\* The store's lexer.  A word glued to a word is one identifier; an
\* operator never merges with its neighbours; an identifier glued to the
\* end of a parameter or a numeral is read as the next lexeme by a lenient
\* lexer and rejected as trailing junk by a strict one.
RECURSIVE Lex(_, _)
Lex(text, lenient) ==
    IF text = <<>> THEN [ok |-> TRUE, lex |-> <<>>]
    ELSE LET init == Lex(SubSeq(text, 1, Len(text) - 1), lenient)
             p == text[Len(text)]
             q == init.lex[Len(init.lex)]
         IN IF ~init.ok THEN init
            ELSE IF p.sp \/ init.lex = <<>> \/ p.kind = "op" \/ q.kind = "op"
            THEN [ok |-> TRUE, lex |-> Append(init.lex, p)]
            ELSE IF q.kind = "word"
            THEN [ok |-> TRUE,
                  lex |-> [init.lex EXCEPT ![Len(init.lex)] =
                              Word(q.tok \o p.tok, q.sp)]]
            ELSE IF p.kind = "word" /\ lenient
            THEN [ok |-> TRUE, lex |-> Append(init.lex, p)]
            ELSE [ok |-> FALSE, lex |-> <<>>]

IsWord(l, s) == l.kind = "word" /\ l.tok = s

CompareOps == {">=", "<=", ">", "="}

\* column <op> operand, the three lexemes from position i
CondOk(lex, i, table) ==
    /\ lex[i].kind = "word" /\ lex[i].tok \in Columns(table)
    /\ \/ IsWord(lex[i + 1], "ILIKE") /\ lex[i + 2].kind = "param"
       \/ /\ lex[i + 1].kind = "op" /\ lex[i + 1].tok \in CompareOps
          /\ lex[i + 2].kind \in {"param", "num"}

\* FROM table [WHERE cond {AND cond}] ORDER BY column
Parse(lex) ==
    LET n == Len(lex)
        k == (n - 5) \div 4      \* number of conditions
    IN IF n < 5 \/ (n - 5) % 4 # 0 THEN [ok |-> FALSE]
       ELSE IF ~(IsWord(lex[1], "FROM") /\ lex[2].kind = "word"
                 /\ lex[2].tok \in Tables)
       THEN [ok |-> FALSE]
       ELSE IF ~(/\ IsWord(lex[n - 2], "ORDER") /\ IsWord(lex[n - 1], "BY")
                 /\ lex[n].kind = "word" /\ lex[n].tok \in Columns(lex[2].tok))
       THEN [ok |-> FALSE]
       ELSE IF \E c \in 1..k :
                 \/ ~IsWord(lex[4 * c - 1], IF c = 1 THEN "WHERE" ELSE "AND")
                 \/ ~CondOk(lex, 4 * c, lex[2].tok)
       THEN [ok |-> FALSE]
       ELSE [ok |-> TRUE, table |-> lex[2].tok, orderBy |-> lex[n].tok,
             conds |-> [c \in 1..k |->
                          [col |-> lex[4 * c].tok, op |-> lex[4 * c + 1].tok,
                           arg |-> lex[4 * c + 2]]]]

\* case folding and collation of the characters the model uses
Lower(ch) == IF ch = "A" THEN "a" ELSE IF ch = "B" THEN "b" ELSE ch
CharRank(ch) == IF ch = "a" THEN 1 ELSE IF ch = "A" THEN 2
                ELSE IF ch = "b" THEN 3 ELSE IF ch = "B" THEN 4 ELSE 5

\* text ILIKE pattern
RECURSIVE LikeMatch(_, _)
LikeMatch(pat, s) ==
    IF pat = <<>> THEN s = <<>>
    ELSE IF Head(pat) = "%"
    THEN LikeMatch(Tail(pat), s) \/ (s # <<>> /\ LikeMatch(pat, Tail(s)))
    ELSE /\ s # <<>>
         /\ (Head(pat) = "_" \/ Lower(Head(pat)) = Lower(Head(s)))
         /\ LikeMatch(Tail(pat), Tail(s))

RECURSIVE TextLeq(_, _)
TextLeq(s, t) ==
    IF s = <<>> THEN TRUE
    ELSE IF t = <<>> THEN FALSE
    ELSE IF Head(s) = Head(t) THEN TextLeq(Tail(s), Tail(t))
    ELSE CharRank(Head(s)) < CharRank(Head(t))

TextColumns == {"name", "title"}
KeyLeq(col, a, b) == IF col \in TextColumns THEN TextLeq(a, b) ELSE a <= b

\* ORDER BY col: a stable sort of the rows as delivered
RECURSIVE SortBy(_, _)
SortBy(rows, col) ==
    IF rows = <<>> THEN <<>>
    ELSE LET init == SortBy(SubSeq(rows, 1, Len(rows) - 1), col)
             x == rows[Len(rows)]
             j == Cardinality({i \in DOMAIN init : KeyLeq(col, init[i][col], x[col])})
         IN SubSeq(init, 1, j) \o <<x>> \o SubSeq(init, j + 1, Len(init))

ArgValue(arg, values) == IF arg.kind = "param" THEN values[arg.n] ELSE arg.n

CondHolds(c, row, values) ==
    IF c.op = "ILIKE" THEN LikeMatch(ArgValue(c.arg, values), row[c.col])
    ELSE IF c.op = ">=" THEN row[c.col] >= ArgValue(c.arg, values)
    ELSE IF c.op = "<=" THEN row[c.col] <= ArgValue(c.arg, values)
    ELSE IF c.op = ">" THEN row[c.col] > ArgValue(c.arg, values)
    ELSE row[c.col] = ArgValue(c.arg, values)

\* the parameters a parsed statement refers to are exactly $1..$Len(values)
ParamsOk(conds, values) ==
    {conds[c].arg.n : c \in {d \in DOMAIN conds : conds[d].arg.kind = "param"}}
        = 1..Len(values)

\* a statement given as text: SELECT sel <text>
ExecText(q, db, rev) ==
    LET lx == Lex(q.text, db.lenient)
        ps == Parse(lx.lex)
    IN IF ~lx.ok THEN QueryFail("trailing junk", db)
       ELSE IF ~ps.ok THEN QueryFail("syntax error or unknown relation", db)
       ELSE IF ~SelOk(ps.table, q.sel) THEN QueryFail("column does not exist", db)
       ELSE IF ~ParamsOk(ps.conds, q.values)
       THEN QueryFail("bind message supplies the wrong number of parameters", db)
       ELSE LET hit == {r \in Rows(db, ps.table) :
                           \A c \in DOMAIN ps.conds : CondHolds(ps.conds[c], r, q.values)}
            IN QueryOk([i \in 1..Cardinality(hit) |->
                           Project(SortBy(Deliver(hit, rev), ps.orderBy)[i], q.sel)],
                       db)

\* DELETE FROM table WHERE where.col = $where.placeholder RETURNING returning
\* Jobs refer to their company: removing a company that still has jobs
\* removes them as well (db.cascade) or is refused, as the schema has it.
ExecDelete(q, db, rev) ==
    IF q.table \notin Tables THEN QueryFail("relation does not exist", db)
    ELSE IF q.where.col \notin Columns(q.table) \/ ~SelOk(q.table, q.returning)
    THEN QueryFail("column does not exist", db)
    ELSE LET hit == {r \in Rows(db, q.table) :
                        r[q.where.col] = q.values[q.where.placeholder]}
             owned == IF q.table = "companies"
                      THEN {j \in db.jobs :
                               \E r \in hit : r.handle = j.company_handle}
                      ELSE {}
         IN IF owned # {} /\ ~db.cascade
            THEN QueryFail("violates foreign key constraint", db)
            ELSE QueryOk(Deliver({Project(r, q.returning) : r \in hit}, rev),
                         [WithRows(db, q.table, Rows(db, q.table) \ hit)
                             EXCEPT !.jobs = @ \ owned])

\* db.query(statement, values)
Query(q, db, rev) ==
    IF q.op = "select" THEN ExecSelect(q, db, rev)
    ELSE IF q.op = "delete" THEN ExecDelete(q, db, rev)
    ELSE IF q.op = "selectJoin" THEN ExecSelectJoin(q, db, rev)
    ELSE IF q.op = "insert" THEN ExecInsert(q, db)
    ELSE IF q.op = "update" THEN ExecUpdate(q, db, rev)
    ELSE ExecText(q, db, rev)

(***************************************************************************)
(* helpers/sql.js                                                          *)
(***************************************************************************)
\* A field mapping is the sequence of its entries in Object.keys order.
Keys(data) == [i \in DOMAIN data |-> data[i].key]
Values(data) == [i \in DOMAIN data |-> data[i].value]

\* jsToSql[colName] || colName
ColumnFor_NoAlias(jsToSql, colName) == colName
ColumnFor(jsToSql, colName) ==
    IF Has(jsToSql, colName) /\ jsToSql[colName] # "" THEN jsToSql[colName]
    ELSE colName

\* One fragment  "column"=$placeholder ; setCols joins the fragments with ", ".
sqlForPartialUpdate_ZeroBased(dataToUpdate, jsToSql) ==
    LET keys == Keys(dataToUpdate)
    IN IF Len(keys) = 0 THEN Throw(BadRequestError(<<"No data">>))
       ELSE Return([setCols |-> [idx \in 1..Len(keys) |->
                                    [column |-> ColumnFor(jsToSql, keys[idx]),
                                     placeholder |-> idx - 1]],
                    values |-> Values(dataToUpdate)])
sqlForPartialUpdate_NoEmptyCheck(dataToUpdate, jsToSql) ==
    LET keys == Keys(dataToUpdate)
    IN Return([setCols |-> [idx \in 1..Len(keys) |->
                               [column |-> ColumnFor(jsToSql, keys[idx]),
                                placeholder |-> (idx - 1) + 1]],
               values |-> Values(dataToUpdate)])
sqlForPartialUpdate(dataToUpdate, jsToSql) ==
    LET keys == Keys(dataToUpdate)
    IN IF Len(keys) = 0 THEN Throw(BadRequestError(<<"No data">>))
       ELSE Return([setCols |-> [idx \in 1..Len(keys) |->
                                    [column |-> ColumnFor(jsToSql, keys[idx]),
                                     placeholder |-> (idx - 1) + 1]],
                    values |-> Values(dataToUpdate)])

(***************************************************************************)
(* models/company.js                                                       *)
(***************************************************************************)
Sel(col, as) == [col |-> col, as |-> as]

CompanySel ==
    <<Sel("handle", "handle"), Sel("name", "name"),
      Sel("description", "description"),
      Sel("num_employees", "numEmployees"), Sel("logo_url", "logoUrl")>>

\* the result of a repository call: outcome, store afterwards, queries issued
Done(outcome, db, queries) == [outcome |-> outcome, db |-> db, queries |-> queries]

\* a call that is suspended at its second await
Pending(db, queries) == [pending |-> TRUE, db |-> db, queries |-> queries]
IsPending(r) == "pending" \in DOMAIN r

\* Company.create up to the duplicate check
CompanyCreateBegin(c, db) ==
    LET q1 == [op |-> "select", table |-> "companies",
               sel |-> <<Sel("handle", "handle")>>,
               where |-> [col |-> "handle", placeholder |-> 1],
               values |-> <<c.handle>>]
        duplicateCheck == Query(q1, db, FALSE)
    IN IF ~duplicateCheck.ok THEN Done(Throw(duplicateCheck.error), db, <<q1>>)
       ELSE IF Len(duplicateCheck.rows) > 0
       THEN Done(Throw(BadRequestError(<<"Duplicate company: ", c.handle>>)), db, <<q1>>)
       ELSE Pending(db, <<q1>>)

\* Company.create from the insert on
CompanyCreateFinish(c, db, queries) ==
    LET q2 == [op |-> "insert", table |-> "companies",
               cols |-> <<"handle", "name", "description", "num_employees", "logo_url">>,
               returning |-> CompanySel,
               values |-> <<c.handle, c.name, c.description, c.numEmployees, c.logoUrl>>]
        result == Query(q2, db, FALSE)
    IN IF ~result.ok THEN Done(Throw(result.error), result.db, Append(queries, q2))
       ELSE Done(Return(result.rows[1]), result.db, Append(queries, q2))

CompanyCreate(c, db) ==
    LET checked == CompanyCreateBegin(c, db)
    IN IF IsPending(checked)
       THEN CompanyCreateFinish(c, checked.db, checked.queries)
       ELSE checked

CompanyValidFilters == {"name", "minEmployees", "maxEmployees"}

\* Object.keys(options).filter((filter) => !validFilters.includes(filter))
InvalidFilters_Inverted(options, validFilters) == DOMAIN options \cap validFilters
InvalidFilters(options, validFilters) == DOMAIN options \ validFilters

\* `%${text}%`
Pattern(text) == <<"%">> \o text \o <<"%">>

\* The statement text and bind values after each step of the assembly:
\* the base selection, the name, minEmployees and maxEmployees filters,
\* the ordering clause.
CompanyAssembly(options) ==
    LET a0 == [search |-> <<Word("FROM", TRUE), Word("companies", TRUE)>>,
               values |-> <<>>]
        a1 == IF TruthyStr(options, "name")
              THEN [search |-> a0.search \o
                        <<Word("WHERE", FALSE), Word("name", TRUE),
                          Word("ILIKE", TRUE), Param(1, TRUE)>>,
                    values |-> Append(a0.values, Pattern(options.name))]
              ELSE a0
        a2 == IF TruthyNum(options, "minEmployees")
              THEN [search |-> a1.search \o
                        (IF Len(a1.values) = 0
                         THEN <<Word("WHERE", FALSE), Word("num_employees", TRUE),
                                Oper(">=", TRUE), Param(1, TRUE)>>
                         ELSE <<Word("AND", FALSE), Word("num_employees", TRUE),
                                Oper(">=", TRUE), Param(Len(a1.values) + 1, TRUE)>>),
                    values |-> Append(a1.values, options.minEmployees)]
              ELSE a1
        a3 == IF TruthyNum(options, "maxEmployees")
              THEN [search |-> a2.search \o
                        (IF Len(a2.values) = 0
                         THEN <<Word("WHERE", FALSE), Word("num_employees", TRUE),
                                Oper("<=", TRUE), Param(1, TRUE)>>
                         ELSE <<Word("AND", FALSE), Word("num_employees", TRUE),
                                Oper(">=", TRUE), Param(Len(a2.values) + 1, FALSE)>>),
                    values |-> Append(a2.values, options.maxEmployees)]
              ELSE a2
        a4 == [search |-> a3.search \o
                   <<Word("ORDER", FALSE), Word("BY", TRUE), Word("name", TRUE)>>,
               values |-> a3.values]
    IN <<a0, a1, a2, a3, a4>>

\* minEmployees > maxEmployees, false when either is undefined
EmployeeConflict_Truthy(options) ==
    /\ TruthyNum(options, "minEmployees") /\ TruthyNum(options, "maxEmployees")
    /\ options.minEmployees > options.maxEmployees
EmployeeConflict(options) ==
    /\ Has(options, "minEmployees") /\ Has(options, "maxEmployees")
    /\ options.minEmployees > options.maxEmployees

CompanyFindAll(options, db, rev) ==
    LET invalidFilters == InvalidFilters(options, CompanyValidFilters)
        asm == CompanyAssembly(options)
        q == [op |-> "text", sel |-> CompanySel,
              text |-> asm[Len(asm)].search, values |-> asm[Len(asm)].values]
        companiesRes == Query(q, db, rev)
    IN IF invalidFilters # {}
       THEN Done(Throw(ExpressError(<<"Invalid filter option">>, 400)), db, <<>>)
       ELSE IF EmployeeConflict(options)
       THEN Done(Throw(ExpressError(<<"Employee filter conflict">>, 400)), db, <<>>)
       ELSE IF ~companiesRes.ok THEN Done(Throw(companiesRes.error), db, <<q>>)
       ELSE Done(ReturnArray(companiesRes.rows), db, <<q>>)

\* !company for the array that rows.map returns: an array is never falsy
IsFalsyArray(a) == FALSE

CompanyGet(handle, db, rev) ==
    LET q == [op |-> "selectJoin", left |-> "companies", right |-> "jobs",
              on |-> [l |-> "handle", r |-> "company_handle"],
              sel |-> <<[side |-> "c", col |-> "handle", as |-> "handle"],
                        [side |-> "c", col |-> "name", as |-> "name"],
                        [side |-> "c", col |-> "description", as |-> "description"],
                        [side |-> "c", col |-> "num_employees", as |-> "numEmployees"],
                        [side |-> "c", col |-> "logo_url", as |-> "logoUrl"],
                        [side |-> "j", col |-> "id", as |-> "id"],
                        [side |-> "j", col |-> "title", as |-> "title"],
                        [side |-> "j", col |-> "salary", as |-> "salary"],
                        [side |-> "j", col |-> "equity", as |-> "equity"]>>,
              where |-> [col |-> "handle", placeholder |-> 1],
              values |-> <<handle>>]
        companyRes == Query(q, db, rev)
        company == [i \in DOMAIN companyRes.rows |->
                      LET row == companyRes.rows[i]
                      IN [name |-> row.name,
                          description |-> row.description,
                          num_employees |-> row.numEmployees,
                          logo_url |-> row.logoUrl,
                          jobs |-> [id |-> row.id, title |-> row.title,
                                    salary |-> row.salary, equity |-> row.equity]]]
    IN IF ~companyRes.ok THEN Done(Throw(companyRes.error), db, <<q>>)
       ELSE IF IsFalsyArray(company)
       THEN Done(Throw(NotFoundError(<<"No company: ", handle>>)), db, <<q>>)
       ELSE Done(ReturnArray(company), db, <<q>>)

CompanyJsToSql ==
    [k \in {"numEmployees", "logoUrl"} |->
        IF k = "numEmployees" THEN "num_employees" ELSE "logo_url"]

CompanyUpdate(handle, data, db) ==
    LET built == sqlForPartialUpdate(data, CompanyJsToSql)
        q == [op |-> "update", table |-> "companies",
              set |-> built.value.setCols,
              where |-> [col |-> "handle",
                         placeholder |-> Len(built.value.values) + 1],
              returning |-> CompanySel,
              values |-> built.value.values \o <<handle>>]
        result == Query(q, db, FALSE)
    IN IF ~built.ok THEN Done(built, db, <<>>)
       ELSE IF ~result.ok THEN Done(Throw(result.error), result.db, <<q>>)
       ELSE IF Len(result.rows) = 0
       THEN Done(Throw(NotFoundError(<<"No company: ", handle>>)), result.db, <<q>>)
       ELSE Done(Return(result.rows[1]), result.db, <<q>>)

CompanyRemove(handle, db) ==
    LET q == [op |-> "delete", table |-> "companies",
              where |-> [col |-> "handle", placeholder |-> 1],
              returning |-> <<Sel("handle", "handle")>>,
              values |-> <<handle>>]
        result == Query(q, db, FALSE)
    IN IF ~result.ok THEN Done(Throw(result.error), result.db, <<q>>)
       ELSE IF Len(result.rows) = 0
       THEN Done(Throw(NotFoundError(<<"No company: ", handle>>)), result.db, <<q>>)
       ELSE Done(ReturnUndefined, result.db, <<q>>)

(***************************************************************************)
(* models/job.js                                                           *)
(***************************************************************************)
JobSel ==
    <<Sel("title", "title"), Sel("salary", "salary"), Sel("equity", "equity"),
      Sel("company_handle", "companyHandle")>>

\* Job.create up to the duplicate check
JobCreateBegin(j, db) ==
    LET q1 == [op |-> "select", table |-> "jobs",
               sel |-> <<Sel("id", "id")>>,
               where |-> [col |-> "title", placeholder |-> 1],
               values |-> <<j.title>>]
        duplicateCheck == Query(q1, db, FALSE)
    IN IF ~duplicateCheck.ok THEN Done(Throw(duplicateCheck.error), db, <<q1>>)
       ELSE IF Len(duplicateCheck.rows) > 0
       THEN Done(Throw(BadRequestError(
                    <<"Duplicate job: ", j.title, " at ", j.companyHandle>>)),
                 db, <<q1>>)
       ELSE Pending(db, <<q1>>)

\* Job.create from the insert on
JobCreateFinish_ColumnNamed(j, db, queries) ==
    LET q2 == [op |-> "insert", table |-> "jobs",
               cols |-> <<"title", "salary", "equity", "company_handle">>,
               returning |-> JobSel,
               values |-> <<j.title, j.salary, j.equity, j.companyHandle>>]
        result == Query(q2, db, FALSE)
    IN IF ~result.ok THEN Done(Throw(result.error), result.db, Append(queries, q2))
       ELSE Done(Return(result.rows[1]), result.db, Append(queries, q2))
JobCreateFinish(j, db, queries) ==
    LET q2 == [op |-> "insert", table |-> "jobs",
               cols |-> <<"title", "salary", "equity", "companyHandle">>,
               returning |-> JobSel,
               values |-> <<j.title, j.salary, j.equity, j.companyHandle>>]
        result == Query(q2, db, FALSE)
    IN IF ~result.ok THEN Done(Throw(result.error), result.db, Append(queries, q2))
       ELSE Done(Return(result.rows[1]), result.db, Append(queries, q2))

JobCreate(j, db) ==
    LET checked == JobCreateBegin(j, db)
    IN IF IsPending(checked)
       THEN JobCreateFinish(j, checked.db, checked.queries)
       ELSE checked

JobValidFilters == {"title", "minSalary", "hasEquity"}

\* The statement text and bind values after each step of the assembly:
\* the base selection, the title, minSalary and hasEquity filters, the
\* ordering clause.
JobAssembly(options) ==
    LET a0 == [search |-> <<Word("FROM", TRUE), Word("jobs", TRUE)>>,
               values |-> <<>>]
        a1 == IF TruthyStr(options, "title")
              THEN [search |-> a0.search \o
                        <<Word("WHERE", FALSE), Word("title", TRUE),
                          Word("ILIKE", TRUE), Param(1, TRUE)>>,
                    values |-> Append(a0.values, Pattern(options.title))]
              ELSE a0
        a2 == IF TruthyNum(options, "minSalary")
              THEN LET index == Len(a1.values) + 1
                   IN [search |-> a1.search \o
                          <<Word(IF Len(a1.values) = 0 THEN "WHERE" ELSE "AND", TRUE),
                            Word("salary", TRUE), Oper(">=", TRUE), Param(index, TRUE)>>,
                       values |-> Append(a1.values, options.minSalary)]
              ELSE a1
        a3 == IF Has(options, "hasEquity")
              THEN LET operator == IF options.hasEquity THEN ">" ELSE "="
                   IN [search |-> a2.search \o
                          <<Word(IF Len(a2.values) = 0 THEN "WHERE" ELSE "AND", TRUE),
                            Word("equity", TRUE), Oper(operator, TRUE),
                            Numeral(0, TRUE)>>,
                       values |-> a2.values]
              ELSE a2
        a4 == [search |-> a3.search \o
                   <<Word("ORDER", FALSE), Word("BY", TRUE), Word("title", TRUE)>>,
               values |-> a3.values]
    IN <<a0, a1, a2, a3, a4>>

JobFindAll(options, db, rev) ==
    LET invalidFilters == InvalidFilters(options, JobValidFilters)
        asm == JobAssembly(options)
        q == [op |-> "text", sel |-> JobSel,
              text |-> asm[Len(asm)].search, values |-> asm[Len(asm)].values]
        jobRes == Query(q, db, rev)
    IN IF invalidFilters # {}
       THEN Done(Throw(ExpressError(<<"Invalid filter option">>, 400)), db, <<>>)
       ELSE IF ~jobRes.ok THEN Done(Throw(jobRes.error), db, <<q>>)
       ELSE Done(ReturnArray(jobRes.rows), db, <<q>>)

JobGet(title, db, rev) ==
    LET q == [op |-> "select", table |-> "jobs", sel |-> JobSel,
              where |-> [col |-> "title", placeholder |-> 1],
              values |-> <<title>>]
        jobRes == Query(q, db, rev)
    IN IF ~jobRes.ok THEN Done(Throw(jobRes.error), db, <<q>>)
       ELSE IF Len(jobRes.rows) = 0
       THEN Done(Throw(NotFoundError(<<"No job: ", title>>)), db, <<q>>)
       ELSE Done(Return(jobRes.rows[1]), db, <<q>>)

JobJsToSql == [k \in {"salary", "equity"} |-> k]

JobUpdate(title, data, db) ==
    LET built == sqlForPartialUpdate(data, JobJsToSql)
        q == [op |-> "update", table |-> "companies",
              set |-> built.value.setCols,
              where |-> [col |-> "title",
                         placeholder |-> Len(built.value.values) + 1],
              returning |-> <<Sel("title", "title"), Sel("salary", "salary"),
                              Sel("equity", "equity")>>,
              values |-> built.value.values \o <<title>>]
        result == Query(q, db, FALSE)
    IN IF ~built.ok THEN Done(built, db, <<>>)
       ELSE IF ~result.ok THEN Done(Throw(result.error), result.db, <<q>>)
       ELSE IF Len(result.rows) = 0
       THEN Done(Throw(NotFoundError(<<"No job: ", title>>)), result.db, <<q>>)
       ELSE Done(Return(result.rows[1]), result.db, <<q>>)

\* The template `No company: ${handle}` names handle, which Job.remove does
\* not declare: evaluating it throws before the NotFoundError is built.
JobRemove(title, db) ==
    LET q == [op |-> "delete", table |-> "jobs",
              where |-> [col |-> "title", placeholder |-> 1],
              returning |-> <<Sel("title", "title")>>,
              values |-> <<title>>]
        result == Query(q, db, FALSE)
    IN IF ~result.ok THEN Done(Throw(result.error), result.db, <<q>>)
       ELSE IF Len(result.rows) = 0
       THEN Done(Throw(ReferenceError(<<"handle is not defined">>)), result.db, <<q>>)
       ELSE Done(ReturnUndefined, result.db, <<q>>)

(***************************************************************************)
(* Inputs of the calls and the stores a call can find.                     *)
(***************************************************************************)
Handles == {"c1", "c2"}
LookupHandles == Handles \cup {"nope"}
Names == {<<"a">>, <<"A", "b">>}
Titles == {<<"a">>, <<"a", "B">>}
LookupTitles == Titles \cup {<<"b", "b">>}
Equities == {0, 50}    \* equity in hundredths

NewCompanies ==
    [handle : Handles, name : Names, description : {"Desc"},
     numEmployees : 0..MaxEmployees, logoUrl : {"http://logo"}]

NewJobs ==
    [title : Titles, salary : 1..MaxSalary, equity : Equities,
     companyHandle : Handles]

SeedCompany ==
    [handle |-> "c1", name |-> <<"a">>, description |-> "Desc",
     num_employees |-> 1, logo_url |-> "http://logo"]
SeedJobs ==
    {[id |-> 1, title |-> <<"a">>, salary |-> 1, equity |-> 0,
      company_handle |-> "c1"],
     [id |-> 2, title |-> <<"a", "B">>, salary |-> MaxSalary, equity |-> 50,
      company_handle |-> "c1"]}

Entry(k, v) == [key |-> k, value |-> v]

\* an optional argument is the empty sequence or the sequence of its value
Optional(S) == {<<>>} \cup {<<v>> : v \in S}
Part(k, opt) == IF opt = <<>> THEN <<>> ELSE k :> opt[1]

NameFilters == {<<>>, <<"a">>}
CompanyOptions(name, min, max, other) ==
    Part("name", name) @@ Part("minEmployees", min)
        @@ Part("maxEmployees", max) @@ Part("foo", other)
JobOptions(title, min, eq, other) ==
    Part("title", title) @@ Part("minSalary", min)
        @@ Part("hasEquity", eq) @@ Part("foo", other)

CompanyData(name, num) ==
    (IF num = <<>> THEN <<>> ELSE <<Entry("numEmployees", num[1])>>)
        \o (IF name = <<>> THEN <<>> ELSE <<Entry("name", name[1])>>)
JobData(salary, eq) ==
    (IF salary = <<>> THEN <<>> ELSE <<Entry("salary", salary[1])>>)
        \o (IF eq = <<>> THEN <<>> ELSE <<Entry("equity", eq[1])>>)

(***************************************************************************)
(* The state machine: one action per repository call.                      *)
(***************************************************************************)
Db == [companies |-> companies, jobs |-> jobs, lenient |-> lenientLexer]

\* a call that has not begun
Idle ==
    [pc |-> "idle", op |-> "none", arg |-> <<>>,
     outcome |-> [ok |-> TRUE, type |-> "undefined", value |-> <<>>],
     queries |-> <<>>]

NoCall ==
    [op |-> "none", args |-> <<>>,
     outcome |-> [ok |-> TRUE, type |-> "undefined", value |-> <<>>],
     queries |-> <<>>]

Init ==
    /\ companies \in {{}, {SeedCompany}}
    /\ jobs \in (IF companies = {} THEN {{}} ELSE {{}, SeedJobs})
    /\ lenientLexer \in BOOLEAN
    /\ last = NoCall
    /\ inflight = [p \in 1..MaxCalls |-> Idle]

Call(op, args, r) ==
    /\ companies' = r.db.companies
    /\ jobs' = r.db.jobs
    /\ UNCHANGED <<lenientLexer, inflight>>
    /\ last' = [op |-> op, args |-> args, outcome |-> r.outcome,
                queries |-> r.queries]

DoCompanyCreate ==
    \E c \in NewCompanies : Call("Company.create", c, CompanyCreate(c, Db))

DoCompanyGet ==
    \E h \in LookupHandles, rev \in BOOLEAN :
        Call("Company.get", [handle |-> h], CompanyGet(h, Db, rev))

DoCompanyUpdate ==
    \E h \in LookupHandles, name \in Optional({<<"A", "b">>}),
       num \in Optional(0..MaxEmployees) :
        Call("Company.update", [handle |-> h, data |-> CompanyData(name, num)],
             CompanyUpdate(h, CompanyData(name, num), Db))

DoCompanyFindAll ==
    \E name \in Optional(NameFilters), min \in Optional(0..MaxEmployees),
       max \in Optional(0..MaxEmployees), other \in Optional({"bar"}),
       rev \in BOOLEAN :
        Call("Company.findAll",
             [options |-> CompanyOptions(name, min, max, other)],
             CompanyFindAll(CompanyOptions(name, min, max, other), Db, rev))

DoCompanyRemove ==
    \E h \in LookupHandles, cascade \in BOOLEAN :
        Call("Company.remove", [handle |-> h],
             CompanyRemove(h, [companies |-> companies, jobs |-> jobs,
                               lenient |-> lenientLexer, cascade |-> cascade]))

DoJobRemove ==
    \E t \in LookupTitles :
        Call("Job.remove", [title |-> t], JobRemove(t, Db))

DoJobCreate ==
    \E j \in NewJobs : Call("Job.create", j, JobCreate(j, Db))

DoJobGet ==
    \E t \in LookupTitles, rev \in BOOLEAN :
        Call("Job.get", [title |-> t], JobGet(t, Db, rev))

DoJobUpdate ==
    \E t \in LookupTitles, salary \in Optional(1..MaxSalary),
       eq \in Optional(Equities) :
        Call("Job.update", [title |-> t, data |-> JobData(salary, eq)],
             JobUpdate(t, JobData(salary, eq), Db))

DoJobFindAll ==
    \E title \in Optional(NameFilters), min \in Optional(0..MaxSalary),
       eq \in Optional(BOOLEAN), other \in Optional({"bar"}), rev \in BOOLEAN :
        Call("Job.findAll",
             [options |-> JobOptions(title, min, eq, other)],
             JobFindAll(JobOptions(title, min, eq, other), Db, rev))

\* the keys, values and column aliases the builder is tried on
BuilderKeys == {"firstName", "age", "numEmployees"}
BuilderValue(k, alt) ==
    IF k = "firstName" THEN (IF alt THEN "Aliya" ELSE "Bo")
    ELSE IF k = "age" THEN (IF alt THEN 32 ELSE 0)
    ELSE (IF alt THEN 1 ELSE 0)
BuilderAlias(k) ==
    IF k = "firstName" THEN "first_name"
    ELSE IF k = "age" THEN "age" ELSE "num_employees"

DoSqlForPartialUpdate ==
    \E len \in 0..MaxDataLen, aliased \in SUBSET BuilderKeys :
      \E ks \in [1..len -> BuilderKeys], alt \in [1..len -> BOOLEAN] :
        /\ \A i, j \in 1..len : ks[i] = ks[j] => i = j
        /\ LET data == [i \in 1..len |-> Entry(ks[i], BuilderValue(ks[i], alt[i]))]
               jsToSql == [k \in aliased |-> BuilderAlias(k)]
           IN last' = [op |-> "sqlForPartialUpdate",
                       args |-> [dataToUpdate |-> data, jsToSql |-> jsToSql],
                       outcome |-> sqlForPartialUpdate(data, jsToSql),
                       queries |-> <<>>]
        /\ UNCHANGED <<companies, jobs, lenientLexer, inflight>>

\* the create, get, update and remove calls of both repositories
Next ==
    \/ DoCompanyCreate
    \/ DoCompanyGet
    \/ DoCompanyUpdate
    \/ DoCompanyRemove
    \/ DoJobCreate
    \/ DoJobGet
    \/ DoJobUpdate
    \/ DoJobRemove

Spec == Init /\ [][Next]_vars

\* the list calls of both repositories
NextFind ==
    \/ DoCompanyFindAll
    \/ DoJobFindAll

SpecFind == Init /\ [][NextFind]_vars

\* the partial-update builder on its own
SpecBuilder == Init /\ [][DoSqlForPartialUpdate]_vars

\* The records that concurrent create calls carry.
RacingCompanies ==
    {c \in NewCompanies : c.name = <<"a">> /\ c.numEmployees \in {0, MaxEmployees}}
RacingJobs ==
    {j \in NewJobs : j.salary = MaxSalary /\ j.equity = 0}

\* Call p has reached its next await, or has returned or thrown.
Settle(p, op, arg, r) ==
    /\ companies' = r.db.companies
    /\ jobs' = r.db.jobs
    /\ inflight' = [inflight EXCEPT ![p] =
            IF IsPending(r)
            THEN [pc |-> "checked", op |-> op, arg |-> arg,
                  outcome |-> Idle.outcome, queries |-> r.queries]
            ELSE [pc |-> "done", op |-> op, arg |-> arg,
                  outcome |-> r.outcome, queries |-> r.queries]]
    /\ UNCHANGED <<lenientLexer, last>>

\* A create call runs up to the await of its duplicate check, and after the
\* store has answered it runs on from the insert; other calls run in between.
BeginCompanyCreate ==
    \E p \in 1..MaxCalls, c \in RacingCompanies :
        /\ inflight[p].pc = "idle"
        /\ Settle(p, "Company.create", c, CompanyCreateBegin(c, Db))

FinishCompanyCreate ==
    \E p \in 1..MaxCalls :
        /\ inflight[p].pc = "checked"
        /\ inflight[p].op = "Company.create"
        /\ Settle(p, "Company.create", inflight[p].arg,
                  CompanyCreateFinish(inflight[p].arg, Db, inflight[p].queries))

BeginJobCreate ==
    \E p \in 1..MaxCalls, j \in RacingJobs :
        /\ inflight[p].pc = "idle"
        /\ Settle(p, "Job.create", j, JobCreateBegin(j, Db))

FinishJobCreate ==
    \E p \in 1..MaxCalls :
        /\ inflight[p].pc = "checked"
        /\ inflight[p].op = "Job.create"
        /\ Settle(p, "Job.create", inflight[p].arg,
                  JobCreateFinish(inflight[p].arg, Db, inflight[p].queries))

\* create calls of both repositories, interleaved at their awaits
NextConcurrent ==
    \/ BeginCompanyCreate
    \/ FinishCompanyCreate
    \/ BeginJobCreate
    \/ FinishJobCreate
SpecConcurrent == Init /\ [][NextConcurrent]_vars

(***************************************************************************)
(* Properties.                                                             *)
(***************************************************************************)
IsBuilderCall == last.op = "sqlForPartialUpdate"
IsFindAll == last.op \in {"Company.findAll", "Job.findAll"}
ValidFiltersOf(op) ==
    IF op = "Company.findAll" THEN CompanyValidFilters ELSE JobValidFilters

\* C1: for a non-empty field mapping sqlForPartialUpdate returns one
\* fragment and one bind value per key, the Nth fragment carries
\* placeholder $N and the Nth bind value is the value of the Nth key.
C1_FragmentsAlignWithValues ==
    (IsBuilderCall /\ Len(last.args.dataToUpdate) > 0) =>
        LET data == last.args.dataToUpdate
        IN /\ last.outcome.ok
           /\ Len(last.outcome.value.setCols) = Len(data)
           /\ Len(last.outcome.value.values) = Len(data)
           /\ \A n \in 1..Len(data) :
                /\ last.outcome.value.setCols[n].placeholder = n
                /\ last.outcome.value.values[n] = data[n].value

C1_Witness ==
    /\ IsBuilderCall
    /\ Len(last.args.dataToUpdate) = MaxDataLen
    /\ last.outcome.ok
    /\ last.outcome.value.setCols[MaxDataLen].placeholder = MaxDataLen

C3_EmptyDataRejectedBeforeAnyQuery ==
    [][/\ \A aliased \in SUBSET BuilderKeys :
            sqlForPartialUpdate(<<>>, [k \in aliased |-> BuilderAlias(k)])
                = Throw(BadRequestError(<<"No data">>))
       /\ (last'.op \in {"Company.update", "Job.update"}
           /\ last'.args.data = <<>>) =>
             /\ last'.outcome = Throw(BadRequestError(<<"No data">>))
             /\ last'.queries = <<>>
             /\ companies' = companies
             /\ jobs' = jobs]_vars

C3_Witness ==
    /\ last.op = "Company.update"
    /\ last.args.data = <<>>
    /\ \E c \in companies : c.handle = last.args.handle
    /\ ~last.outcome.ok
    /\ last.outcome.error.name = "BadRequestError"

C5_EmployeeConflictRejected ==
    (/\ last.op = "Company.findAll"
     /\ {"minEmployees", "maxEmployees"} \subseteq DOMAIN last.args.options
     /\ last.args.options.minEmployees > last.args.options.maxEmployees) =>
        /\ ~last.outcome.ok
        /\ last.outcome.error.status = 400
        /\ last.queries = <<>>
        /\ (DOMAIN last.args.options \subseteq CompanyValidFilters) =>
              last.outcome = Throw(ExpressError(<<"Employee filter conflict">>, 400))

C5_Witness ==
    /\ last.op = "Company.findAll"
    /\ DOMAIN last.args.options = {"minEmployees", "maxEmployees"}
    /\ last.args.options.minEmployees > last.args.options.maxEmployees
    /\ last.args.options.maxEmployees = 0
    /\ ~last.outcome.ok
    /\ last.outcome.error.message = <<"Employee filter conflict">>

\* what the claims call the record of a stored row
CanonicalCompany(r) ==
    [handle |-> r.handle, name |-> r.name, description |-> r.description,
     numEmployees |-> r.num_employees, logoUrl |-> r.logo_url]
CanonicalJob(r) ==
    [title |-> r.title, salary |-> r.salary, equity |-> r.equity,
     companyHandle |-> r.company_handle]

\* text contains sub, letter case ignored
Contains(text, sub) ==
    \E i \in 0..(Len(text) - Len(sub)) :
        \A j \in 1..Len(sub) : Lower(text[i + j]) = Lower(sub[j])

CompanySatisfies(r, options) ==
    /\ Has(options, "name") => Contains(r.name, options.name)
    /\ Has(options, "minEmployees") => r.num_employees >= options.minEmployees
    /\ Has(options, "maxEmployees") => r.num_employees <= options.maxEmployees

JobSatisfies(r, options) ==
    /\ Has(options, "title") => Contains(r.title, options.title)
    /\ Has(options, "minSalary") => r.salary >= options.minSalary
    /\ Has(options, "hasEquity") =>
          IF options.hasEquity THEN r.equity > 0 ELSE r.equity = 0

\* C6: for every valid, non-conflicting company filter mapping
\* Company.findAll returns exactly the stored companies that satisfy every
\* supplied filter (name substring, numEmployees >= minEmployees,
\* numEmployees <= maxEmployees).
C6_CompanyFindAllReturnsMatches ==
    (/\ last.op = "Company.findAll"
     /\ DOMAIN last.args.options \subseteq CompanyValidFilters
     /\ ~(/\ {"minEmployees", "maxEmployees"} \subseteq DOMAIN last.args.options
          /\ last.args.options.minEmployees > last.args.options.maxEmployees)) =>
        LET want == {CanonicalCompany(r) :
                        r \in {c \in companies : CompanySatisfies(c, last.args.options)}}
        IN /\ last.outcome.ok
           /\ last.outcome.type = "array"
           /\ Range(last.outcome.value) = want
           /\ Len(last.outcome.value) = Cardinality(want)

\* C7: for every valid job filter mapping Job.findAll returns exactly the
\* stored jobs that satisfy every supplied filter (title substring,
\* salary >= minSalary, equity compared with 0), and the bind values are
\* only the title pattern and the minSalary that were supplied.
C7_JobFindAllReturnsMatches ==
    (/\ last.op = "Job.findAll"
     /\ DOMAIN last.args.options \subseteq JobValidFilters) =>
        LET o == last.args.options
            want == {CanonicalJob(r) : r \in {j \in jobs : JobSatisfies(j, o)}}
        IN /\ last.outcome.ok
           /\ last.outcome.type = "array"
           /\ Range(last.outcome.value) = want
           /\ Len(last.outcome.value) = Cardinality(want)
           /\ Len(last.queries) = 1
           /\ last.queries[1].values =
                 (IF Has(o, "title") THEN <<Pattern(o.title)>> ELSE <<>>)
                 \o (IF Has(o, "minSalary") THEN <<o.minSalary>> ELSE <<>>)

\* C8: create of either entity with a natural key that is already stored
\* fails with BadRequestError and inserts nothing; with a key that is not
\* stored it inserts exactly one record and returns it under the canonical
\* field names with the supplied values.
C8_CreateChecksDuplicates ==
    [][/\ last'.op = "Company.create" =>
            IF \E r \in companies : r.handle = last'.args.handle
            THEN /\ ~last'.outcome.ok
                 /\ last'.outcome.error.name = "BadRequestError"
                 /\ companies' = companies /\ jobs' = jobs
            ELSE /\ last'.outcome.ok
                 /\ last'.outcome.value = last'.args
                 /\ jobs' = jobs
                 /\ \E r \in companies' \ companies :
                      /\ companies' = companies \cup {r}
                      /\ CanonicalCompany(r) = last'.args
       /\ last'.op = "Job.create" =>
            IF \E r \in jobs : r.title = last'.args.title
            THEN /\ ~last'.outcome.ok
                 /\ last'.outcome.error.name = "BadRequestError"
                 /\ companies' = companies /\ jobs' = jobs
            ELSE (\E c \in companies : c.handle = last'.args.companyHandle) =>
                 /\ last'.outcome.ok
                 /\ last'.outcome.value = last'.args
                 /\ companies' = companies
                 /\ \E r \in jobs' \ jobs :
                      /\ jobs' = jobs \cup {r}
                      /\ CanonicalJob(r) = last'.args]_vars

\* C9: create(X) for a key not yet stored, directly followed by get(X.key),
\* returns a single record whose fields equal those of X, for both
\* entities, also for a company without jobs.
C9_CreateThenGetRoundTrip ==
    [][/\ (/\ last.op = "Company.create" /\ last.outcome.ok
           /\ last'.op = "Company.get"
           /\ last'.args.handle = last.args.handle) =>
             /\ last'.outcome.ok
             /\ last'.outcome.type = "object"
             /\ last'.outcome.value = last.args
       /\ (/\ last.op = "Job.create" /\ last.outcome.ok
           /\ last'.op = "Job.get"
           /\ last'.args.title = last.args.title) =>
             /\ last'.outcome.ok
             /\ last'.outcome.type = "object"
             /\ last'.outcome.value = last.args]_vars

\* C10: get of either entity with a natural key that matches no stored
\* record fails with NotFoundError (404) and returns no value.
C10_GetOfMissingKeyIsNotFound ==
    /\ (/\ last.op = "Company.get"
        /\ ~\E r \in companies : r.handle = last.args.handle) =>
          /\ ~last.outcome.ok
          /\ last.outcome.error.name = "NotFoundError"
          /\ last.outcome.error.status = 404
    /\ (/\ last.op = "Job.get"
        /\ ~\E r \in jobs : r.title = last.args.title) =>
          /\ ~last.outcome.ok
          /\ last.outcome.error.name = "NotFoundError"
          /\ last.outcome.error.status = 404

\* C11: remove of a key that matches no stored record fails with
\* NotFoundError and changes nothing; remove of a stored key succeeds and
\* deletes exactly that record, and a get of that key directly afterwards
\* fails with NotFoundError. (For a company the second part is stated for
\* one that no job refers to.)
C11_RemoveDeletesOrIsNotFound ==
    [][/\ (/\ last'.op = "Job.remove"
           /\ ~\E r \in jobs : r.title = last'.args.title) =>
             /\ ~last'.outcome.ok
             /\ last'.outcome.error.name = "NotFoundError"
             /\ jobs' = jobs /\ companies' = companies
       /\ (/\ last'.op = "Company.remove"
           /\ ~\E r \in companies : r.handle = last'.args.handle) =>
             /\ ~last'.outcome.ok
             /\ last'.outcome.error.name = "NotFoundError"
             /\ jobs' = jobs /\ companies' = companies
       /\ (/\ last'.op = "Job.remove"
           /\ \E r \in jobs : r.title = last'.args.title) =>
             /\ last'.outcome.ok
             /\ jobs' = {r \in jobs : r.title # last'.args.title}
             /\ companies' = companies
       /\ (/\ last'.op = "Company.remove"
           /\ \E r \in companies : r.handle = last'.args.handle
           /\ ~\E j \in jobs : j.company_handle = last'.args.handle) =>
             /\ last'.outcome.ok
             /\ companies' = {r \in companies : r.handle # last'.args.handle}
             /\ jobs' = jobs
       /\ (/\ last.op = "Job.remove" /\ last.outcome.ok
           /\ last'.op = "Job.get"
           /\ last'.args.title = last.args.title) =>
             /\ ~last'.outcome.ok
             /\ last'.outcome.error.name = "NotFoundError"
       /\ (/\ last.op = "Company.remove" /\ last.outcome.ok
           /\ last'.op = "Company.get"
           /\ last'.args.handle = last.args.handle) =>
             /\ ~last'.outcome.ok
             /\ last'.outcome.error.name = "NotFoundError"]_vars

\* the column a field of the update data is stored in
FieldColumn(key) ==
    IF key = "numEmployees" THEN "num_employees"
    ELSE IF key = "logoUrl" THEN "logo_url" ELSE key
\* the record r with exactly the supplied fields replaced
WithFields(r, data) ==
    [c \in DOMAIN r |->
        IF \E i \in DOMAIN data : FieldColumn(data[i].key) = c
        THEN data[CHOOSE i \in DOMAIN data : FieldColumn(data[i].key) = c].value
        ELSE r[c]]

\* C12: update(key, fields) with at least one field changes exactly the
\* supplied fields of the record of that entity with that key, leaves every
\* other field, every other record and the other entity unchanged, and
\* returns the updated record; when no record has the key it fails with
\* NotFoundError and the store is unchanged.
C12_UpdateChangesSuppliedFieldsOnly ==
    [][/\ (/\ last'.op = "Company.update" /\ last'.args.data # <<>>) =>
             IF \E r \in companies : r.handle = last'.args.handle
             THEN /\ last'.outcome.ok
                  /\ companies' = {IF r.handle = last'.args.handle
                                     THEN WithFields(r, last'.args.data)
                                     ELSE r : r \in companies}
                  /\ jobs' = jobs
                  /\ \E r \in companies' :
                        /\ r.handle = last'.args.handle
                        /\ last'.outcome.value = CanonicalCompany(r)
             ELSE /\ ~last'.outcome.ok
                  /\ last'.outcome.error.name = "NotFoundError"
                  /\ companies' = companies /\ jobs' = jobs
       /\ (/\ last'.op = "Job.update" /\ last'.args.data # <<>>) =>
             IF \E r \in jobs : r.title = last'.args.title
             THEN /\ last'.outcome.ok
                  /\ jobs' = {IF r.title = last'.args.title
                                THEN WithFields(r, last'.args.data)
                                ELSE r : r \in jobs}
                  /\ companies' = companies
                  /\ \E r \in jobs' :
                        /\ r.title = last'.args.title
                        /\ last'.outcome.value =
                             [title |-> r.title, salary |-> r.salary,
                              equity |-> r.equity]
             ELSE /\ ~last'.outcome.ok
                  /\ last'.outcome.error.name = "NotFoundError"
                  /\ companies' = companies /\ jobs' = jobs]_vars

\* the snapshots of (search, values) that the findAll of last went through
AssemblyOf(call) ==
    IF call.op = "Company.findAll" THEN CompanyAssembly(call.args.options)
    ELSE JobAssembly(call.args.options)
\* the placeholder numbers of a statement text, in the order they appear
ParamNums(search) ==
    LET ps == SelectSeq(search, LAMBDA x : x.kind = "param")
    IN [i \in DOMAIN ps |-> ps[i].n]
\* the value that the k-th step of the assembly binds
FilterValue(call, k) ==
    LET o == call.args.options
    IN IF call.op = "Company.findAll"
       THEN IF k = 2 THEN Pattern(o.name)
            ELSE IF k = 3 THEN o.minEmployees ELSE o.maxEmployees
       ELSE IF k = 2 THEN Pattern(o.title) ELSE o.minSalary
\* the pieces that step k appended
Appended(A, k) == SubSeq(A[k].search, Len(A[k - 1].search) + 1, Len(A[k].search))

\* C13: in both findAll assemblers, after every append the placeholders of
\* the text are $1..$n in order with n the number of bind values, and every
\* fragment that binds a value uses the index len(values)+1 and pushes
\* exactly that filter's value; a fragment without a placeholder pushes none.
C13_PlaceholdersMatchValues ==
    (IsFindAll /\ last.queries # <<>>) =>
        LET A == AssemblyOf(last)
        IN /\ \A k \in DOMAIN A :
                ParamNums(A[k].search) = [i \in 1..Len(A[k].values) |-> i]
           /\ \A k \in 2..Len(A) :
                \/ A[k] = A[k - 1]
                \/ /\ ParamNums(Appended(A, k)) = <<>>
                   /\ A[k].values = A[k - 1].values
                \/ /\ ParamNums(Appended(A, k)) = <<Len(A[k - 1].values) + 1>>
                   /\ A[k].values = Append(A[k - 1].values, FilterValue(last, k))
           /\ last.queries[1].values = A[Len(A)].values

\* findAll calls that bind two and three values
C13_Witness ==
    /\ last.op = "Company.findAll" /\ last.queries # <<>>
    /\ Len(CompanyAssembly(last.args.options)[5].values) = 3
    /\ ParamNums(last.queries[1].text) = <<1, 2, 3>>

\* the tokens of a statement text
Toks(text) == [i \in DOMAIN text |-> text[i].tok]
\* a list of records is in the order of the text field f
OrderedBy(rows, f) ==
    \A i \in 1..(Len(rows) - 1) : TextLeq(rows[i][f], rows[i + 1][f])

\* C14: the statement text that findAll sends consists of tokens separated
\* by whitespace: the base selection, then one clause per applied filter,
\* the first opened by WHERE and every later one by AND, then ORDER BY
\* name/title, with no keyword fused with the token before it; findAll
\* without filters returns all stored records in order.
C14_StatementTokensAreSeparated ==
    (/\ IsFindAll
     /\ DOMAIN last.args.options \subseteq ValidFiltersOf(last.op)
     /\ ~(/\ last.op = "Company.findAll"
          /\ {"minEmployees", "maxEmployees"} \subseteq DOMAIN last.args.options
          /\ last.args.options.minEmployees > last.args.options.maxEmployees)) =>
        LET text == last.queries[1].text
            key == IF last.op = "Company.findAll" THEN "name" ELSE "title"
            clauses == SelectSeq(Toks(text), LAMBDA t : t \in {"WHERE", "AND"})
            all == IF last.op = "Company.findAll"
                   THEN {CanonicalCompany(r) : r \in companies}
                   ELSE {CanonicalJob(r) : r \in jobs}
        IN /\ Len(last.queries) = 1
           /\ \A i \in DOMAIN text : text[i].sp
           /\ \A i \in DOMAIN clauses :
                clauses[i] = IF i = 1 THEN "WHERE" ELSE "AND"
           /\ SubSeq(Toks(text), Len(text) - 2, Len(text)) = <<"ORDER", "BY", key>>
           /\ DOMAIN last.args.options = {} =>
                /\ last.outcome.ok
                /\ last.outcome.type = "array"
                /\ Range(last.outcome.value) = all
                /\ Len(last.outcome.value) = Cardinality(all)
                /\ OrderedBy(last.outcome.value, key)

\* the bind values of the filters that are present, in the order of the code
PresentValues(call) ==
    LET o == call.args.options
        bound(k) == IF Has(o, k)
                    THEN <<IF k \in {"name", "title"} THEN Pattern(o[k]) ELSE o[k]>>
                    ELSE <<>>
    IN IF call.op = "Company.findAll"
       THEN bound("name") \o bound("minEmployees") \o bound("maxEmployees")
       ELSE bound("title") \o bound("minSalary")

\* C15: every declared filter key that is present in the options adds its
\* fragment to the statement and, for the text and numeric filters, its bind
\* value, whatever the value is: a present 0 or empty text is applied.
C15_PresentFiltersAreApplied ==
    (/\ IsFindAll
     /\ DOMAIN last.args.options \subseteq ValidFiltersOf(last.op)
     /\ ~(/\ last.op = "Company.findAll"
          /\ {"minEmployees", "maxEmployees"} \subseteq DOMAIN last.args.options
          /\ last.args.options.minEmployees > last.args.options.maxEmployees)) =>
        LET A == AssemblyOf(last)
            final == A[Len(A)]
            clauses == SelectSeq(Toks(final.search),
                                 LAMBDA t : t \in {"WHERE", "AND"})
        IN /\ Len(clauses) = Cardinality(DOMAIN last.args.options)
           /\ final.values = PresentValues(last)
           /\ Len(last.queries) = 1
           /\ last.queries[1].values = PresentValues(last)

\* the natural key that a create call carries
KeyOf(call) ==
    IF call.op = "Company.create" THEN call.arg.handle ELSE call.arg.title
\* calls p and q are create calls of the same entity with the same key
SameKey(p, q) ==
    /\ inflight[p].pc # "idle" /\ inflight[q].pc # "idle"
    /\ inflight[p].op = inflight[q].op
    /\ KeyOf(inflight[p]) = KeyOf(inflight[q])
\* call p has inserted its record
Inserted(p) == inflight[p].pc = "done" /\ inflight[p].outcome.ok

====
